---- MODULE Spec2Model ----
(***************************************************************************)
(* Model of kinship/kinship.py: Profile and Duo (paternity test for a      *)
(* parent/child pair of STR profiles).                                     *)
(*                                                                         *)
(* A raw profile (a Python dict marker -> allele collection) is a function *)
(* whose DOMAIN is its key set and whose values are sequences.  Alleles    *)
(* are integers (repeat counts).  A population table is a function marker  *)
(* -> (allele -> frequency).  Frequencies and the running product `calc`   *)
(* are exact rationals <<numerator, denominator>> in lowest terms; Python  *)
(* evaluates the same expressions in binary floating point.                *)
(*                                                                         *)
(* The inputs are dicts whose keys are strings and whose allele            *)
(* collections hold numbers, so the numpy array of a profile keeps the     *)
(* values as given.  Duo.population is a reference to the caller's table:  *)
(* the variable population stands for both.  parent and child are the      *)
(* caller's two dict objects; argParent and argChild record what they held *)
(* when Duo(...) was last called.                                          *)
(***************************************************************************)
EXTENDS Integers, Sequences, FiniteSets, TLC

VARIABLES parent, child, child0, population, argParent, argChild,
          outcome, duo, accesses, im_last, pi_last

vars == <<parent, child, child0, population, argParent, argChild,
          outcome, duo, accesses, im_last, pi_last>>

----------------------------------------------------------------------------
(* Bounds of the model *)

MaxAllele == 16
MultiMaxAllele == 15
ParentMaxAllele == 14
MaxLen == 3
MaxAccesses == 2

----------------------------------------------------------------------------
(* Python values *)

\* The marker names of the model in the order of Python's str comparison.
MarkerOrder == <<"", "AMEL", "CSF1PO", "TH01">>

\* sorted(d.keys()) for a set of marker names.
sorted(keys) == SelectSeq(MarkerOrder, LAMBDA m : m \in keys)

\* bool(m) for a str: the empty string is falsy.
Truthy(m) == m # ""

\* any(l) for a list of str.
any(l) == \E i \in 1..Len(l) : Truthy(l[i])

RECURSIVE GCD(_, _)
GCD(a, b) == IF b = 0 THEN a ELSE GCD(b, a % b)

\* The number n/d (d > 0, n >= 0) in lowest terms.
Rat(n, d) == LET g == GCD(n, d) IN <<n \div g, d \div g>>

RAdd(x, y) == Rat(x[1] * y[2] + y[1] * x[2], x[2] * y[2])
RMul(x, y) == Rat(x[1] * y[1], x[2] * y[2])
\* x / y for y # 0.
RDiv(x, y) == Rat(x[1] * y[2], x[2] * y[1])
RIsZero(x) == x[1] = 0

One == <<1, 1>>
Half == <<1, 2>>
Quarter == <<1, 4>>
Four == <<4, 1>>

\* key in pop, pop[key] for a dict keyed by numbers: a key matches an
\* allele entry when it is numerically equal to it.
HasKey(pop, key) == key[2] = 1 /\ key[1] \in DOMAIN pop
GetKey(pop, key) == pop[key[1]]

----------------------------------------------------------------------------
(* class Profile *)

parse_markers(profile) == sorted(DOMAIN profile)

parse_alleles(profile, markers) ==
    [i \in 1..Len(markers) |-> profile[markers[i]]]

Profile(profile) ==
    LET markers == parse_markers(profile)
    IN  [markers |-> markers, alleles |-> parse_alleles(profile, markers)]

----------------------------------------------------------------------------
(* class Duo: construction *)

EmptyProfile == [markers |-> <<>>, alleles |-> <<>>]

NoDuo == [child |-> EmptyProfile, parent |-> EmptyProfile, markers |-> <<>>]

\* The length check with the AMEL entry left out.
load_profile_raises_skip_AMEL(data) ==
    \E k \in (DOMAIN data) \ {"AMEL"} : Len(data[k]) # 2

\* The length check of _load_profile: TRUE when it raises ValueError.
load_profile_raises(data) == \E k \in DOMAIN data : Len(data[k]) # 2

\* The mapping after `del data['AMEL']` (the caller's object is changed).
load_profile_data(data) ==
    IF "AMEL" \in DOMAIN data
    THEN [k \in (DOMAIN data) \ {"AMEL"} |-> data[k]]
    ELSE data

load_profile(data) == Profile(load_profile_data(data))

\* TRUE when _get_markers raises ValueError.
get_markers_raises(p, c) == p.markers # c.markers

get_markers(p, c) == p.markers

\* Duo(parent, c, population): c is the caller's child mapping or a new
\* mapping with the contents the child mapping had at first.
Construct(fresh) ==
    LET p == parent
        c == IF fresh THEN child0 ELSE child
    IN  /\ argParent' = p
        /\ argChild' = c
        /\ accesses' = 0
        /\ im_last' = [kind |-> "unset", markers |-> <<>>]
        /\ pi_last' = [kind |-> "unset", val |-> <<0, 1>>, count |-> 0]
        /\ UNCHANGED <<child0, population>>
        /\ IF sorted(DOMAIN p) # sorted(DOMAIN c)
           THEN /\ outcome' = "ValueError"
                /\ duo' = NoDuo
                /\ parent' = p
                /\ child' = c
           ELSE IF load_profile_raises(c)
           THEN /\ outcome' = "ValueError"
                /\ duo' = NoDuo
                /\ parent' = p
                /\ child' = c
           ELSE IF load_profile_raises(p)
           THEN /\ outcome' = "ValueError"
                /\ duo' = NoDuo
                /\ parent' = p
                /\ child' = load_profile_data(c)
           ELSE LET cp == load_profile(c)
                    pp == load_profile(p)
                IN  /\ parent' = load_profile_data(p)
                    /\ child' = load_profile_data(c)
                    /\ IF get_markers_raises(pp, cp)
                       THEN /\ outcome' = "ValueError"
                            /\ duo' = NoDuo
                       ELSE /\ outcome' = "ok"
                            /\ duo' = [child |-> cp, parent |-> pp,
                                       markers |-> get_markers(pp, cp)]

----------------------------------------------------------------------------
(* Duo.inconsistent_markers *)

\* Membership tested against the first allele of the row only.
In_first(allele, alleles) == Len(alleles) > 0 /\ alleles[1] = allele

\* allele in alleles, for one row of the allele array.
In(allele, alleles) == \E j \in 1..Len(alleles) : alleles[j] = allele

\* len(_check): the number of child alleles that are not in the parent pair.
check_len(p_alleles, c_alleles) ==
    Cardinality({i \in 1..Len(c_alleles) : ~ In(c_alleles[i], p_alleles)})

MinOf(a, b) == IF a <= b THEN a ELSE b

\* The values paternity_index returns or raises.
Numeric(v) == [kind |-> "Numeric", val |-> v, count |-> 0]
Diagnostic(n) == [kind |-> "Diagnostic", val |-> <<0, 1>>, count |-> n]
Raised(e) == [kind |-> e, val |-> <<0, 1>>, count |-> 0]

\* The loop over zip(_markers, zip(parent.alleles, child.alleles)) from
\* position i on: the markers appended to the list.
RECURSIVE inconsistent_from(_, _)
inconsistent_from(d, i) ==
    IF i > MinOf(Len(d.parent.markers),
                 MinOf(Len(d.parent.alleles), Len(d.child.alleles)))
    THEN <<>>
    ELSE (IF check_len(d.parent.alleles[i], d.child.alleles[i]) # 1
          THEN <<d.parent.markers[i]>>
          ELSE <<>>) \o inconsistent_from(d, i + 1)

\* The value of the property: the list, or the integer 0.
inconsistent_markers(d) ==
    LET l == inconsistent_from(d, 1)
    IN  IF any(l) THEN [kind |-> "list", markers |-> l]
                  ELSE [kind |-> "zero", markers |-> <<>>]

\* bool(x) of the value of the property.
IsTruthy(im) == im.kind = "list" /\ Len(im.markers) > 0

----------------------------------------------------------------------------
(* Duo.paternity_index *)

Values(alleles) == {alleles[i] : i \in 1..Len(alleles)}

is_heterozygous(alleles) == Cardinality(Values(alleles)) = 2

\* np.intersect1d(p, c) as a set; its element [0] is the least one.
intersect1d(p, c) == Values(p) \cap Values(c)

Least(S) == CHOOSE x \in S : \A y \in S : x <= y

\* num / pop.get(key, 1): a missing key counts as frequency 1.
div_by_freq_default(num, pop, key) ==
    IF ~ HasKey(pop, key) THEN Numeric(num)
    ELSE IF RIsZero(GetKey(pop, key)) THEN Raised("ZeroDivisionError")
    ELSE Numeric(RDiv(num, GetKey(pop, key)))

\* num / pop[key]: KeyError when the key is missing, ZeroDivisionError
\* when the frequency is zero.
div_by_freq(num, pop, key) ==
    IF ~ HasKey(pop, key) THEN Raised("KeyError")
    ELSE IF RIsZero(GetKey(pop, key)) THEN Raised("ZeroDivisionError")
    ELSE Numeric(RDiv(num, GetKey(pop, key)))

\* (a + b) / (4 * a * b) with a, b = pop[p[0]], pop[p[1]]
both_shared(pop, p) ==
    IF ~ HasKey(pop, <<p[1], 1>>) \/ ~ HasKey(pop, <<p[2], 1>>)
    THEN Raised("KeyError")
    ELSE LET a == pop[p[1]]
             b == pop[p[2]]
         IN  IF RIsZero(RMul(Four, RMul(a, b)))
             THEN Raised("ZeroDivisionError")
             ELSE Numeric(RDiv(RAdd(a, b), RMul(Four, RMul(a, b))))

\* 0.25 / pop[p[0]]: the parent's first allele in place of the shared one.
one_shared_first(pop, p, c) ==
    IF intersect1d(p, c) = {} THEN Raised("IndexError")
    ELSE div_by_freq(Quarter, pop, <<p[1], 1>>)

\* 0.25 / pop[np.intersect1d(p, c)[0]]
one_shared(pop, p, c) ==
    IF intersect1d(p, c) = {} THEN Raised("IndexError")
    ELSE div_by_freq(Quarter, pop, <<Least(intersect1d(p, c)), 1>>)

\* 1 / pop[pop[0]]
homozygous_pair(pop) ==
    IF ~ HasKey(pop, <<0, 1>>) THEN Raised("KeyError")
    ELSE div_by_freq(One, pop, pop[0])

\* The factor one iteration of the loop multiplies calc by.
marker_factor(pop, p, c) ==
    IF is_heterozygous(p) /\ is_heterozygous(c)
    THEN IF Cardinality(intersect1d(p, c)) = 2
         THEN both_shared(pop, p)
         ELSE one_shared(pop, p, c)
    ELSE IF is_heterozygous(p) /\ ~ is_heterozygous(c)
    THEN div_by_freq(Half, pop, <<p[1], 1>>)
    ELSE IF ~ is_heterozygous(p) /\ is_heterozygous(c)
    THEN div_by_freq(Half, pop, <<p[1], 1>>)
    ELSE homozygous_pair(pop)

\* The loop over zip(markers, parent.alleles, child.alleles) from position
\* i on, with the running product calc.
RECURSIVE index_loop(_, _, _, _)
index_loop(d, table, i, calc) ==
    IF i > MinOf(Len(d.markers),
                 MinOf(Len(d.parent.alleles), Len(d.child.alleles)))
    THEN Numeric(calc)
    ELSE IF d.markers[i] \notin DOMAIN table THEN Raised("KeyError")
    ELSE LET f == marker_factor(table[d.markers[i]],
                                d.parent.alleles[i], d.child.alleles[i])
         IN  IF f.kind # "Numeric" THEN f
             ELSE index_loop(d, table, i + 1, RMul(calc, f.val))

paternity_index(d, table) ==
    IF IsTruthy(inconsistent_markers(d))
    THEN Diagnostic(Len(inconsistent_markers(d).markers))
    ELSE index_loop(d, table, 1, One)

----------------------------------------------------------------------------
(* The two properties, read by a caller *)

AccessInconsistentMarkers ==
    /\ outcome = "ok"
    /\ accesses < MaxAccesses
    /\ accesses' = accesses + 1
    /\ im_last' = inconsistent_markers(duo)
    /\ UNCHANGED <<parent, child, child0, population, argParent, argChild,
                   outcome, duo, pi_last>>

\* paternity_index consuming the marker list as it iterates.
AccessPaternityIndexConsuming ==
    /\ outcome = "ok"
    /\ accesses < MaxAccesses
    /\ accesses' = accesses + 1
    /\ pi_last' = paternity_index(duo, population)
    /\ duo' = [duo EXCEPT !.markers = <<>>]
    /\ UNCHANGED <<parent, child, child0, population, argParent, argChild,
                   outcome, im_last>>

AccessPaternityIndex ==
    /\ outcome = "ok"
    /\ accesses < MaxAccesses
    /\ accesses' = accesses + 1
    /\ pi_last' = paternity_index(duo, population)
    /\ UNCHANGED <<parent, child, child0, population, argParent, argChild,
                   outcome, duo, im_last>>

----------------------------------------------------------------------------
(* Inputs *)

\* Markers that have a table in the population data.
PopMarkers == {"", "CSF1PO", "TH01"}

BaseFreq(m, a) ==
    IF m = "CSF1PO"
    THEN (CASE a = 13 -> <<1, 5>> [] a = 14 -> <<3, 10>>
            [] a = 15 -> <<1, 10>> [] OTHER -> <<1, 20>>)
    ELSE IF m = "TH01"
    THEN (CASE a = 13 -> <<1, 2>> [] a = 14 -> <<1, 4>>
            [] a = 15 -> <<1, 8>> [] OTHER -> <<1, 16>>)
    ELSE (CASE a = 13 -> <<1, 4>> [] a = 14 -> <<1, 5>>
            [] a = 15 -> <<1, 2>> [] OTHER -> <<1, 10>>)

FullPop == [m \in PopMarkers |-> [a \in 13..MaxAllele |-> BaseFreq(m, a)]]

WithoutMarker(m) == [k \in PopMarkers \ {m} |-> FullPop[k]]

WithoutAllele(a) ==
    [m \in PopMarkers |-> [b \in (13..MaxAllele) \ {a} |-> BaseFreq(m, b)]]

WithZero(a) ==
    [m \in PopMarkers |->
        [b \in 13..MaxAllele |-> IF b = a THEN <<0, 1>> ELSE BaseFreq(m, b)]]

\* A table in which the number 0 and a frequency are allele keys.
ZeroKeyPop ==
    [m \in PopMarkers |->
        [b \in {0, 1} \cup (13..MaxAllele) |->
            IF b = 0 THEN One ELSE IF b = 1 THEN Half ELSE BaseFreq(m, b)]]

\* population {CSF1PO: {13: 0.2, 14: 0.3, 15: 0.1}}
WorkedPop ==
    [m \in {"CSF1PO"} |-> [a \in 13..15 |-> BaseFreq("CSF1PO", a)]]

PopChoices(maxA) ==
    {FullPop, ZeroKeyPop, WorkedPop}
        \cup {WithoutMarker(m) : m \in PopMarkers}
        \cup {WithoutAllele(a) : a \in 13..maxA}
        \cup {WithZero(a) : a \in 13..maxA}

Pairs(maxA) == {<<a, b>> : a \in 13..maxA, b \in 13..maxA}

\* Allele collections whose length is not 2.
Malformed == {[i \in 1..n |-> 12 + i] : n \in (0..MaxLen) \ {2}}

AMELPair == <<13, 14>>

Unset ==
    /\ argParent = <<>>
    /\ argChild = <<>>
    /\ outcome = "none"
    /\ duo = NoDuo
    /\ accesses = 0
    /\ im_last = [kind |-> "unset", markers |-> <<>>]
    /\ pi_last = [kind |-> "unset", val |-> <<0, 1>>, count |-> 0]
    /\ child0 = child

\* Any two mappings over AMEL and two markers, well formed or not.
InitInputs ==
    /\ \E K \in SUBSET {"AMEL", "CSF1PO", "TH01"} :
           parent \in [K -> {<<13, 14>>} \cup Malformed]
    /\ \E K \in SUBSET {"AMEL", "CSF1PO", "TH01"} :
           child \in [K -> {<<13, 14>>} \cup Malformed]
    /\ population = FullPop
    /\ Unset

\* The marker sets and the tables of the cases with several markers.
MultiMarkerSets == {{}, {""}, {"", "CSF1PO"}, {"CSF1PO", "TH01"}}

MultiPops == {FullPop, ZeroKeyPop, WithoutMarker("TH01"), WithoutAllele(13)}

\* Well-formed profiles over the same markers.
InitMulti ==
    /\ \E K \in MultiMarkerSets :
           /\ parent \in [K -> Pairs(ParentMaxAllele)]
           /\ child \in [K -> Pairs(MultiMaxAllele)]
    /\ population \in MultiPops
    /\ Unset

\* One marker, with or without AMEL, over the whole allele range.
InitSingle ==
    /\ \E amel \in SUBSET {"AMEL"} :
           /\ \E g \in Pairs(MaxAllele) :
                  parent = [k \in {"CSF1PO"} \cup amel |->
                               IF k = "AMEL" THEN AMELPair ELSE g]
           /\ \E g \in Pairs(MaxAllele) :
                  child = [k \in {"CSF1PO"} \cup amel |->
                               IF k = "AMEL" THEN AMELPair ELSE g]
    /\ population \in PopChoices(MaxAllele)
    /\ Unset

Init == InitInputs \/ InitMulti \/ InitSingle

Next ==
    \/ \E fresh \in BOOLEAN : Construct(fresh)
    \/ AccessInconsistentMarkers
    \/ AccessPaternityIndex

Spec == Init /\ [][Next]_vars

----------------------------------------------------------------------------
(* Vocabulary of the properties *)

ErrorKinds == {"KeyError", "ZeroDivisionError", "IndexError"}

Constructed == outcome = "ok"

Positions == 1..Len(duo.markers)

PairP(i) == duo.parent.alleles[i]
PairC(i) == duo.child.alleles[i]

\* The number of alleles of the child pair that appear in the parent pair.
Matches(i) ==
    Cardinality({j \in 1..2 : \E k \in 1..2 : PairC(i)[j] = PairP(i)[k]})

Inconsistent(i) == Matches(i) = 0 \/ Matches(i) = 2

InconsistentPositions == {i \in Positions : Inconsistent(i)}

\* The names of the inconsistent markers from position i on.
RECURSIVE InconsistentNames(_)
InconsistentNames(i) ==
    IF i > Len(duo.markers) THEN <<>>
    ELSE (IF Inconsistent(i) THEN <<duo.markers[i]>> ELSE <<>>)
             \o InconsistentNames(i + 1)

Heterozygous(pair) == pair[1] # pair[2]

\* The allele value the pairs at i have in common, when there is one.
Shared(i) == CHOOSE a \in {PairP(i)[1], PairP(i)[2]} :
                 a = PairC(i)[1] \/ a = PairC(i)[2]

HasFreq(m, a) ==
    /\ m \in DOMAIN population
    /\ a \in DOMAIN population[m]
    /\ population[m][a][1] # 0

F(m, a) == population[m][a]

\* The allele whose frequency the ratio of a consistent marker uses.
UsedAllele(i) == IF Heterozygous(PairP(i)) THEN Shared(i) ELSE PairP(i)[1]

\* 0.25 / f(shared) for a heterozygous parent, 0.5 / f(p1) for a
\* homozygous one.
ConsistentRatio(i) ==
    IF Heterozygous(PairP(i))
    THEN RDiv(Quarter, F(duo.markers[i], Shared(i)))
    ELSE RDiv(Half, F(duo.markers[i], PairP(i)[1]))

RECURSIVE ProductFrom(_)
ProductFrom(i) ==
    IF i > Len(duo.markers) THEN One
    ELSE RMul(ConsistentRatio(i), ProductFrom(i + 1))

SingleMarker == Constructed /\ Len(duo.markers) = 1

----------------------------------------------------------------------------
(* Properties *)

\* C1: a marker is reported by inconsistent_markers exactly when zero or
\* two alleles of the child pair appear in the parent pair; the property
\* returns the list of those names when there is one, a falsy value when
\* there is none.
C1_MembershipRule ==
    im_last.kind # "unset" =>
        IF InconsistentPositions # {}
        THEN im_last = [kind |-> "list", markers |-> InconsistentNames(1)]
        ELSE ~ IsTruthy(im_last)

\* C2: with at least one inconsistent marker paternity_index returns the
\* diagnostic with the number of inconsistent markers; a numeric ratio is
\* returned only when no marker is inconsistent.
C2_ShortCircuit ==
    pi_last.kind # "unset" =>
        /\ InconsistentPositions # {} =>
               pi_last = Diagnostic(Cardinality(InconsistentPositions))
        /\ pi_last.kind = "Numeric" => InconsistentPositions = {}

\* C3: with no inconsistent marker and a nonzero frequency for every allele
\* looked up, paternity_index returns the product over the markers of the
\* inputs other than AMEL, in sorted order, of 0.25 / f(shared allele)
\* (parent heterozygous) or 0.5 / f(parent's first allele) (parent
\* homozygous); parent [13,14] with child [13,16] gives 0.25 / f(13).
C3_Product ==
    ( /\ pi_last.kind # "unset"
      /\ InconsistentPositions = {}
      /\ \A i \in Positions : HasFreq(duo.markers[i], UsedAllele(i)) )
    => /\ duo.markers = sorted((DOMAIN argParent) \ {"AMEL"})
       /\ \A i \in Positions :
              /\ PairP(i) = argParent[duo.markers[i]]
              /\ PairC(i) = argChild[duo.markers[i]]
       /\ pi_last = Numeric(ProductFrom(1))
       /\ ( /\ duo.markers = <<"CSF1PO">>
            /\ PairP(1) = <<13, 14>>
            /\ PairC(1) = <<13, 16>> )
          => pi_last = Numeric(RDiv(Quarter, F("CSF1PO", 13)))

C3_Witness ==
    /\ pi_last.kind = "Numeric"
    /\ Len(duo.markers) = 2
    /\ Heterozygous(PairP(1))
    /\ ~ Heterozygous(PairP(2))

\* C4: where parent and child are both heterozygous and share both alleles
\* a, b, paternity_index returns (f(a) + f(b)) / (4 f(a) f(b)); parent
\* [13,14], child [13,14], f(13) = 0.2, f(14) = 0.3 gives 25/12.
C4_BothShared ==
    ( /\ pi_last.kind # "unset"
      /\ SingleMarker
      /\ Heterozygous(PairP(1))
      /\ {PairC(1)[1], PairC(1)[2]} = {PairP(1)[1], PairP(1)[2]}
      /\ HasFreq(duo.markers[1], PairP(1)[1])
      /\ HasFreq(duo.markers[1], PairP(1)[2]) )
    => LET a == F(duo.markers[1], PairP(1)[1])
           b == F(duo.markers[1], PairP(1)[2])
       IN  pi_last = Numeric(RDiv(RAdd(a, b), RMul(Four, RMul(a, b))))

\* C5: where parent and child are both homozygous for the same allele p1,
\* paternity_index returns 1 / f(p1).
C5_HomozygousPair ==
    ( /\ pi_last.kind # "unset"
      /\ SingleMarker
      /\ ~ Heterozygous(PairP(1))
      /\ ~ Heterozygous(PairC(1))
      /\ PairC(1)[1] = PairP(1)[1]
      /\ HasFreq(duo.markers[1], PairP(1)[1]) )
    => pi_last = Numeric(RDiv(One, F(duo.markers[1], PairP(1)[1])))

\* One marker, the child heterozygous with one allele of the parent pair
\* and one allele that is not in it.
OneForeignAllele ==
    /\ SingleMarker
    /\ Heterozygous(PairC(1))
    /\ Matches(1) = 1

WorkedExample ==
    /\ Constructed
    /\ duo.markers = <<"CSF1PO">>
    /\ PairP(1) = <<13, 14>>
    /\ PairC(1) = <<13, 15>>
    /\ population = WorkedPop

\* C6 as stated: a heterozygous child with one parent allele and one allele
\* absent from the parent pair (parent [13,14], child [13,15]) makes the
\* marker inconsistent, and paternity_index returns the diagnostic that
\* reports 1 inconsistent marker.
C6_Original ==
    (OneForeignAllele /\ duo.markers = <<"CSF1PO">>) =>
        /\ im_last.kind # "unset" =>
               im_last = [kind |-> "list", markers |-> duo.markers]
        /\ pi_last.kind # "unset" => pi_last = Diagnostic(1)

\* C6 amended: such a marker is consistent: inconsistent_markers is falsy
\* and paternity_index never returns the diagnostic; it returns the numeric
\* ratio when the allele it looks up has a nonzero frequency, which is
\* 0.25 / f(13) = 5/4 for parent [13,14], child [13,15] and the population
\* {CSF1PO: {13: 0.2, 14: 0.3, 15: 0.1}}.
C6_Consistent ==
    /\ OneForeignAllele =>
           /\ im_last.kind # "unset" => ~ IsTruthy(im_last)
           /\ pi_last.kind # "unset" =>
                  /\ pi_last.kind # "Diagnostic"
                  /\ HasFreq(duo.markers[1], UsedAllele(1))
                         => pi_last = Numeric(ConsistentRatio(1))
    /\ (WorkedExample /\ pi_last.kind # "unset") => pi_last = Numeric(<<5, 4>>)

C6_Witness ==
    /\ WorkedExample
    /\ pi_last = Numeric(<<5, 4>>)
    /\ im_last.kind = "zero"

\* The marker sets differ or some allele collection has a length other
\* than 2.
BadInput ==
    \/ DOMAIN argParent # DOMAIN argChild
    \/ \E m \in DOMAIN argParent : Len(argParent[m]) # 2
    \/ \E m \in DOMAIN argChild : Len(argChild[m]) # 2

\* C7: construction raises ValueError exactly when the marker sets of the
\* two mappings differ (AMEL included) or some allele collection, AMEL
\* included, has a length other than 2; it succeeds otherwise, and a
\* failed construction produces no Duo.
C7_Construction ==
    outcome # "none" =>
        /\ outcome = "ValueError" <=> BadInput
        /\ outcome = "ok" <=> ~ BadInput
        /\ BadInput => duo = NoDuo
        /\ ~ BadInput =>
               /\ duo.parent.markers = duo.child.markers
               /\ \A i \in Positions : Len(PairP(i)) = 2 /\ Len(PairC(i)) = 2

C7_Witness ==
    /\ outcome = "ValueError"
    /\ DOMAIN argParent = DOMAIN argChild
    /\ "AMEL" \in DOMAIN argParent
    /\ Len(argParent["AMEL"]) # 2
    /\ \A m \in DOMAIN argChild : Len(argChild[m]) = 2
    /\ \A m \in (DOMAIN argParent) \ {"AMEL"} : Len(argParent[m]) = 2

\* Some marker of the case, or some allele of the parent or the child at a
\* marker, has no nonzero frequency in the table.
IncompleteTable ==
    \E i \in Positions : \E a \in {PairP(i)[1], PairP(i)[2],
                                   PairC(i)[1], PairC(i)[2]} :
        ~ HasFreq(duo.markers[i], a)

C10_InputsUnchanged ==
    outcome # "none" => (parent = argParent /\ child = argChild)

====
